---- MODULE Spec2Model ----
(***************************************************************************)
(* Model of quantify's MeasurementControl acquisition loop                 *)
(* (quantify/measurement/control.py) together with the dataset builder it  *)
(* calls (quantify/data/data_handling.py).                                 *)
(*                                                                         *)
(* Arrays are sequences (index k of the code is position k+1 here), the    *)
(* not-a-number sentinel is NaN, wall-clock time is a bounded integer      *)
(* clock, and a raised exception is the terminal control state "raised"    *)
(* with the exception class in err.                                        *)
(***************************************************************************)
EXTENDS Integers, Sequences, FiniteSets, TLC

\* ---------------------------------------------------------------- bounds
MaxN        == 2      \* rows of a set-point grid
MaxCols     == 2      \* columns of a set-point grid
MaxAvg      == 2      \* largest soft_avg that is configured
MaxInterval == 1      \* largest update_interval that is configured
MaxTime     == 1      \* the clock stops advancing here
MaxBlock    == 3      \* largest number of points in one bulk read
MaxSample   == 2      \* the source's sample stream cycles through 1..MaxSample

\* ------------------------------------------------------ program constants
FracDoneLimit      == 100   \* control.py:178  while self._get_fracdone() < 100
InitialSoftAvg     == 1     \* control.py:80
InitialInterval    == 1     \* control.py:92   (0.1 s, one clock unit here)

NaN   == -1                 \* np.nan
Unset == -2                 \* value of an instrument parameter never set

\* ------------------------------------------------- external collaborators
\* The settables and gettables a user can hand to the loop.  They are duck
\* typed: a target may or may not carry the prepare/finish hooks.
Settables == {"t", "amp"}
SettableHasHooks(s) == s = "t"

Gettables == [internal : BOOLEAN, hooks : BOOLEAN]

\* quantify.measurement.types.is_internally_controlled: the mode flag the
\* gettable declares.
is_internally_controlled(g) == g.internal

\* What the measured signal is: twice the value of settable t plus the
\* value of amp, as currently set on the instruments (Unset counts as 0).
Val(v) == IF v = Unset THEN 0 ELSE v
Signal(ins) == 2 * Val(ins["t"]) + Val(ins["amp"])

\* ---------------------------------------------------------------- helpers
Min(a, b) == IF a < b THEN a ELSE b

\* Injective sequences over Settables of length 1..2: what set_setpars accepts.
SettableLists ==
  {<<s>> : s \in Settables} \cup
  {p \in Settables \X Settables : p[1] # p[2]}

\* The set-point arrays handed to set_setpoints: row i (1-based) of column c
\* holds (i-1) + 10*(c-1), so that every entry of a grid is distinct.
GridRows(n, m) == [i \in 1..n |-> [c \in 1..m |-> (i - 1) + 10 * (c - 1)]]

NoSetpoints == [isarray |-> FALSE, ncols |-> 0, rows |-> <<>>]   \* the list []

NoDataset == [built |-> FALSE, x |-> <<>>, y |-> <<>>, attrs |-> {}]

NoHooksCalled == [s \in Settables \cup {"gettable"} |-> 0]

\* The dict {}: keys are the keys present, the value of an absent key is
\* held at FALSE or 0.
NoPlotInfo == [keys |-> {}, grid |-> FALSE, xlen |-> 0, ylen |-> 0]

\* An experiment folder that does not exist yet.
NoContainer == [folder |-> FALSE, has_dataset |-> FALSE, x |-> <<>>, y |-> <<>>,
                snapshot |-> FALSE, snapshots |-> 0]

VARIABLES
  pc,                  \* position of run: idle, initialized, prepare, soft_loop,
                       \*   hard_loop, finish, wrapup, done, raised
  err,                 \* class of the exception that left run, or "none"
  settable_pars,       \* self._settable_pars
  setpoints,           \* self._setpoints
  gettable_pars,       \* self._gettable_pars
  soft_avg,            \* parameter soft_avg
  update_interval,     \* parameter update_interval
  nr_acquired_values,  \* self._nr_acquired_values
  begintime,           \* self._begintime
  last_upd,            \* self._last_upd
  now,                 \* time.time()
  is_internal,         \* local of run
  dataset,             \* local of run: the xarray dataset
  idx,                 \* local of run: rows of the soft loop already done
  delivered,           \* points the source has handed out in bulk reads
  instr,               \* value currently set on each settable's instrument
  prepared,            \* number of prepare() calls each target received
  finished,            \* number of finish() calls each target received
  masked,              \* an exception raised inside a hook was caught and dropped
  disk,                \* the experiment container on disk
  progress,            \* what the progress callback has been handed so far
  _plot_info,          \* self._plot_info
  grid_axes,           \* the axes the set-points were tiled from, <<>> if none
  runs,                \* calls of run that have ended
  ts_in,               \* gen_tuid: the timestamps of the calls to come
  uuid_in,             \* gen_tuid: what str(uuid4()) returns in each call
  tuid_out,            \* gen_tuid: the identifiers returned so far
  ds_args,             \* dataset functions: arguments of initialize_dataset
  dset,                \* dataset functions: the dataset being worked on
  dset0,               \* dataset functions: the dataset before it was grown
  ds_log,              \* dataset functions: the calls made so far
  datadir,             \* data_handling._datadir
  tree,                \* the directories on disk, as paths of components
  files,               \* the dataset files on disk: <<folder, tuid attribute>>
  fs_call,             \* the last call of a data-directory function
  ls_call,             \* the call of load_settings_onto_instrument
  asm_call             \* the call of generate_sequencer_cfg

vars == <<pc, err, settable_pars, setpoints, gettable_pars, soft_avg,
          update_interval, nr_acquired_values, begintime, last_upd, now,
          is_internal, dataset, idx, delivered, instr, prepared,
          finished, masked, disk, progress, _plot_info, grid_axes, runs, ts_in, uuid_in, tuid_out,
          ds_args, dset, dset0, ds_log, datadir, tree, files, fs_call,
          ls_call, asm_call>>

config    == <<settable_pars, setpoints, gettable_pars, soft_avg, update_interval>>
runlocals == <<is_internal, dataset, idx, delivered>>
world     == <<instr, prepared, finished, masked, disk>>
probes    == <<progress>>
session   == <<_plot_info, grid_axes, runs>>

\* The state of the measurement control, and the state of the data-handling
\* functions that are exercised on their own.
control == <<pc, err, config, nr_acquired_values, begintime, last_upd, now,
             runlocals, world, probes, session>>
tuidgen == <<ts_in, uuid_in, tuid_out>>
dsfuns  == <<ds_args, dset, dset0, ds_log>>
fsys    == <<datadir, tree, files, fs_call>>
helpers == <<ls_call, asm_call>>
aux     == <<tuidgen, dsfuns, fsys, helpers>>

\* ------------------------------------------------------------------- Init
\* MeasurementControl.__init__
ControlInit ==
  /\ pc = "idle"
  /\ err = "none"
  /\ settable_pars = <<>>
  /\ setpoints = NoSetpoints
  /\ gettable_pars = <<>>
  /\ soft_avg = InitialSoftAvg
  /\ update_interval = InitialInterval
  /\ nr_acquired_values = 0
  /\ now = 0
  /\ begintime = 0
  /\ last_upd = 0
  /\ is_internal = FALSE
  /\ dataset = NoDataset
  /\ idx = 0
  /\ delivered = 0
  /\ instr = [s \in Settables |-> Unset]
  /\ prepared = NoHooksCalled
  /\ finished = NoHooksCalled
  /\ masked = FALSE
  /\ disk = NoContainer
  /\ progress = "none"
  /\ _plot_info = NoPlotInfo
  /\ grid_axes = <<>>
  /\ runs = 0

\* No call of gen_tuid is under way.
TuidIdle == ts_in = <<>> /\ uuid_in = <<>> /\ tuid_out = <<>>

\* No dataset function has been called.
DsIdle == ds_args = <<>> /\ dset = NoDataset /\ dset0 = NoDataset /\ ds_log = <<>>

\* Python's None where a string is expected: no string holds the code 0.
None == <<0>>

\* No keyword arguments.
NoKw == [given |-> FALSE, t_start |-> None, t_stop |-> None, max_results |-> 0,
         reverse |-> FALSE]

NoCall == [op |-> "none", args |-> <<>>, kw |-> NoKw, existed |-> FALSE,
           raised |-> "none", returns |-> "None", result |-> None]

\* The module as imported (data_handling.py:23) and an empty disk.
FsIdle == datadir = None /\ tree = {} /\ files = {} /\ fs_call = NoCall

\* Neither helper has been called.
NoSettingsCall == [done |-> FALSE, raised |-> "none", snapshot |-> <<>>,
                   instrument |-> <<>>, sets |-> {}, warned |-> {}]
NoAsmCall == [done |-> FALSE, pulse_info |-> <<>>, pulse_timings |-> <<>>,
              waveforms |-> <<>>, program |-> <<>>]
HelpersIdle == ls_call = NoSettingsCall /\ asm_call = NoAsmCall

Init == ControlInit /\ TuidIdle /\ DsIdle /\ FsIdle /\ HelpersIdle

\* The clock advances between any two steps.
Tick ==
  /\ now < MaxTime
  /\ now' = now + 1
  /\ UNCHANGED <<aux, session, probes, pc, err, config, nr_acquired_values, begintime, last_upd,
                 runlocals, world>>

\* ---------------------------------------------------------- configuration
set_setpars(pars) ==
  /\ pc = "idle"
  /\ settable_pars' = pars
  /\ UNCHANGED <<aux, session, probes, pc, err, setpoints, gettable_pars, soft_avg, update_interval,
                 nr_acquired_values, begintime, last_upd, now, runlocals, world>>

\* control.py:301-303; the array is GridRows(n, m).
set_setpoints(n, m) ==
  /\ pc = "idle"
  /\ setpoints' = [isarray |-> TRUE, ncols |-> m, rows |-> GridRows(n, m)]
  /\ _plot_info' = [_plot_info EXCEPT !.keys = @ \cup {"2D-grid"}, !.grid = FALSE]
  /\ grid_axes' = <<>>
  /\ UNCHANGED <<aux, runs, probes, pc, err, settable_pars, gettable_pars, soft_avg, update_interval,
                 nr_acquired_values, begintime, last_upd, now, runlocals, world>>

\* Axis k of a grid, n values long: (i-1) + 10*(k-1) at position i.
Axis(k, n) == [i \in 1..n |-> (i - 1) + 10 * (k - 1)]

\* The axes of the given lengths.
Axes(lens) == [k \in 1..Len(lens) |-> Axis(k, lens[k])]

\* A slip: the new axis is tiled instead of repeated.
RECURSIVE tile_setpoints_grid_tiled(_)
tile_setpoints_grid_tiled(axes) ==
  IF Len(axes) = 1 THEN [r \in 1..Len(axes[1]) |-> <<axes[1][r]>>]
  ELSE LET xn     == tile_setpoints_grid_tiled(SubSeq(axes, 1, Len(axes) - 1))
           last   == axes[Len(axes)]
           curr_l == Len(xn)
           new_l  == Len(last)
       IN [r \in 1..(curr_l * new_l) |->
             xn[((r - 1) % curr_l) + 1] \o <<last[((r - 1) % new_l) + 1]>>]

\* control.py:347-371.  Each further axis tiles the columns there are new_l
\* times and adds a column that repeats each of its values curr_l times.
RECURSIVE tile_setpoints_grid(_)
tile_setpoints_grid(axes) ==
  IF Len(axes) = 1 THEN [r \in 1..Len(axes[1]) |-> <<axes[1][r]>>]
  ELSE LET xn     == tile_setpoints_grid(SubSeq(axes, 1, Len(axes) - 1))
           last   == axes[Len(axes)]
           curr_l == Len(xn)
           new_l  == Len(last)
       IN [r \in 1..(curr_l * new_l) |->
             xn[((r - 1) % curr_l) + 1] \o <<last[((r - 1) \div curr_l) + 1]>>]

\* control.py:322-326
set_setpoints_grid(axes) ==
  /\ pc = "idle"
  /\ _plot_info' = IF Len(axes) = 2
                     THEN [keys |-> _plot_info.keys \cup {"xlen", "ylen", "2D-grid"},
                           grid |-> TRUE,
                           xlen |-> Len(axes[1]), ylen |-> Len(axes[2])]
                     ELSE _plot_info
  /\ setpoints' = [isarray |-> TRUE, ncols |-> Len(axes),
                   rows |-> tile_setpoints_grid(axes)]
  /\ grid_axes' = axes
  /\ UNCHANGED <<aux, runs, probes, pc, err, settable_pars, gettable_pars, soft_avg,
                 update_interval, nr_acquired_values, begintime, last_upd, now,
                 runlocals, world>>

set_getpars(g) ==
  /\ pc = "idle"
  /\ gettable_pars' = <<g>>
  /\ UNCHANGED <<aux, session, probes, pc, err, settable_pars, setpoints, soft_avg, update_interval,
                 nr_acquired_values, begintime, last_upd, now, runlocals, world>>

set_soft_avg(v) ==
  /\ pc = "idle"
  /\ soft_avg' = v
  /\ UNCHANGED <<aux, session, probes, pc, err, settable_pars, setpoints, gettable_pars, update_interval,
                 nr_acquired_values, begintime, last_upd, now, runlocals, world>>

set_update_interval(v) ==
  /\ pc = "idle"
  /\ update_interval' = v
  /\ UNCHANGED <<aux, session, probes, pc, err, settable_pars, setpoints, gettable_pars, soft_avg,
                 nr_acquired_values, begintime, last_upd, now, runlocals, world>>

\* ------------------------------------------------------------ the dataset
\* data_handling.initialize_dataset.  setpoints[:, i] raises TypeError on the
\* list [] that __init__ leaves in place and IndexError on a column the grid
\* does not have; nothing else is checked.
initialize_dataset_error(pars, sp) ==
  IF ~sp.isarray THEN "TypeError"
  ELSE IF Len(pars) > sp.ncols \/ sp.ncols = 0 THEN "IndexError"
  ELSE "none"

\* A slip: the gettable arrays are sized by the columns of the grid.
initialize_dataset_by_columns(pars, sp, gets) ==
  [built |-> TRUE,
   x |-> [i \in 1..Len(pars) |-> [r \in 1..Len(sp.rows) |-> sp.rows[r][i]]],
   y |-> [j \in 1..Len(gets) |-> [r \in 1..sp.ncols |-> NaN]],
   attrs |-> {"tuid"}]

initialize_dataset(pars, sp, gets) ==
  [built |-> TRUE,
   x |-> [i \in 1..Len(pars) |-> [r \in 1..Len(sp.rows) |-> sp.rows[r][i]]],
   y |-> [j \in 1..Len(gets) |-> [r \in 1..Len(sp.rows) |-> NaN]],
   attrs |-> {"tuid"}]

\* The not-a-number entries of an array dropped.
RECURSIVE WithoutNaN(_)
WithoutNaN(arr) ==
  IF arr = <<>> THEN <<>>
  ELSE IF arr[1] = NaN THEN WithoutNaN(Tail(arr))
  ELSE <<arr[1]>> \o WithoutNaN(Tail(arr))

\* A slip: only the values acquired so far are written.
to_netcdf_acquired(d, ds) ==
  [d EXCEPT !.has_dataset = TRUE, !.x = ds.x,
            !.y = [j \in 1..Len(ds.y) |-> WithoutNaN(ds.y[j])]]

\* dataset.to_netcdf(join(exp_folder, 'dataset.hdf5')): a full overwrite.
to_netcdf(d, ds) == [d EXCEPT !.has_dataset = TRUE, !.x = ds.x, !.y = ds.y]

\* ------------------------------------------------------------------- run
\* control.py:134-147.  Resets the bookkeeping, reads the mode flag of the
\* first gettable and builds the dataset; an exception leaves run here.
run_begin ==
  /\ pc = "idle"
  /\ nr_acquired_values' = 0
  /\ begintime' = now
  /\ IF gettable_pars = <<>>
       THEN /\ pc' = "raised"
            /\ err' = "IndexError"
            /\ UNCHANGED <<is_internal, dataset>>
       ELSE /\ is_internal' = is_internally_controlled(gettable_pars[1])
            /\ LET e == initialize_dataset_error(settable_pars, setpoints) IN
               IF e # "none"
                 THEN /\ pc' = "raised"
                      /\ err' = e
                      /\ UNCHANGED dataset
                 ELSE /\ pc' = "initialized"
                      /\ err' = "none"
                      /\ dataset' =
                           LET d == initialize_dataset(settable_pars, setpoints,
                                                       gettable_pars)
                           IN [built |-> d.built, x |-> d.x, y |-> d.y,
                               attrs |-> d.attrs \cup {"name"} \cup _plot_info.keys,
                               hints |-> _plot_info]
  /\ UNCHANGED <<aux, session, probes, config, last_upd, now, idx, delivered, world>>

\* A slip: the snapshot is left for the end of the run.
run_create_container_without_snapshot ==
  /\ pc = "initialized"
  /\ disk' = [to_netcdf(NoContainer, dataset) EXCEPT !.folder = TRUE]
  /\ pc' = "prepare"
  /\ UNCHANGED <<aux, session, probes, err, config, nr_acquired_values, begintime, last_upd,
                 now, runlocals, instr, prepared, finished, masked>>

\* control.py:149-155.  Creates the experiment folder, writes the empty
\* dataset and the snapshot (snapshots counts the writes of snapshot.json).
run_create_container ==
  /\ pc = "initialized"
  /\ disk' = [to_netcdf(NoContainer, dataset)
                EXCEPT !.folder = TRUE, !.snapshot = TRUE, !.snapshots = @ + 1]
  /\ pc' = "prepare"
  /\ UNCHANGED <<aux, session, probes, err, config, nr_acquired_values, begintime, last_upd, now,
                 runlocals, instr, prepared, finished, masked>>

\* What one call of a hook does: the target has no such attribute
\* ("absent"), the hook returns ("ok"), the hook's own code raises an
\* AttributeError, or it raises any other exception ("InstrumentError").
HookOutcomes == {"ok", "AttributeError", "InstrumentError"}

\* The outcomes of the hooks of a list of targets: has[k] tells whether
\* target k carries the hook, does[k] what the hook does when called.
Outcomes(has, does) == [k \in 1..Len(has) |-> IF has[k] THEN does[k] ELSE "absent"]

\* Number of targets of a list whose hook is called and returns in
\*   try: for par in pars: par.hook()  except AttributeError: pass
\* the loop ends at the first call that does not return.
RECURSIVE HookedPrefix(_, _)
HookedPrefix(out, k) ==
  IF k > Len(out) THEN Len(out)
  ELSE IF out[k] # "ok" THEN k - 1
  ELSE HookedPrefix(out, k + 1)

\* The call that ended the loop, "ok" when the loop ran to its end.
Stopper(out) ==
  IF HookedPrefix(out, 1) = Len(out) THEN "ok" ELSE out[HookedPrefix(out, 1) + 1]

\* The hooks that were entered: those that returned and the one that raised.
CallHooks(counts, names, out) ==
  [n \in DOMAIN counts |->
     counts[n] + Cardinality({k \in 1..Min(Len(out), HookedPrefix(out, 1) + 1) :
                                names[k] = n /\ out[k] # "absent"})]

SettableHooks(pars) == [k \in 1..Len(pars) |-> SettableHasHooks(pars[k])]
GettableHooks(gets) == [k \in 1..Len(gets) |-> gets[k].hooks]
GettableNames(gets) == [k \in 1..Len(gets) |-> "gettable"]

\* control.py:213-223.  so, go: the outcomes of the settables' and the
\* gettables' prepare hooks.  An exception that is not an AttributeError
\* leaves _prepare at once.
_prepare(counts, so, go) ==
  IF Stopper(so) = "InstrumentError"
    THEN CallHooks(counts, settable_pars, so)
    ELSE CallHooks(CallHooks(counts, settable_pars, so),
                   GettableNames(gettable_pars), go)

_prepare_raises(so, go) ==
  Stopper(so) = "InstrumentError" \/ Stopper(go) = "InstrumentError"

_prepare_masks(so, go) ==
  \/ Stopper(so) = "AttributeError"
  \/ Stopper(so) # "InstrumentError" /\ Stopper(go) = "AttributeError"

\* control.py:225-230.  "a and b" is b when a is non-empty, else a.
FinishTargets == IF gettable_pars = <<>> THEN gettable_pars ELSE settable_pars

_finish(counts, fo) ==
  IF gettable_pars = <<>>
    THEN counts
    ELSE CallHooks(counts, FinishTargets, fo)

\* control.py:165 / 177: which loop runs.
LoopBranch(internal) == IF internal THEN "soft_loop" ELSE "hard_loop"

\* control.py:157-165.  No plot monitor is configured (instr_plotmon is None).
run_prepare ==
  /\ pc = "prepare"
  /\ \E sd \in [1..Len(settable_pars) -> HookOutcomes],
        gd \in [1..Len(gettable_pars) -> HookOutcomes] :
       LET so == Outcomes(SettableHooks(settable_pars), sd)
           go == Outcomes(GettableHooks(gettable_pars), gd)
       IN /\ prepared' = _prepare(prepared, so, go)
          /\ masked' = (masked \/ _prepare_masks(so, go))
          /\ IF _prepare_raises(so, go)
               THEN pc' = "raised" /\ err' = "InstrumentError"
               ELSE pc' = LoopBranch(is_internal) /\ UNCHANGED err
  /\ UNCHANGED <<aux, session, probes, config, nr_acquired_values, begintime, last_upd, now,
                 runlocals, instr, finished, disk>>

\* control.py:232-236.  The fraction as numerator and denominator.
_get_fracdone(nr) == [num |-> nr, den |-> Len(setpoints.rows) * soft_avg]

\* control.py:203-211, for the acquired-count nr and the dataset ds.
update_fires(nr) ==
  \/ now - last_upd > update_interval
  \/ nr = Len(setpoints.rows)

\* control.py:238-239: percdone = self._get_fracdone()*100, as a fraction.
print_progress(nr) ==
  [num |-> 100 * _get_fracdone(nr).num, den |-> _get_fracdone(nr).den]

\* The callback the run is given: it remembers whether it was called and
\* whether every value it was handed was a percentage, 0 to 100.
on_progress_callback(seen, percdone) ==
  IF seen # "beyond" /\ 0 <= percdone.num /\ percdone.num <= 100 * percdone.den
    THEN "percent"
    ELSE "beyond"

_update(nr, ds) ==
  IF update_fires(nr)
    THEN /\ progress' = on_progress_callback(progress, print_progress(nr))
         /\ disk' = to_netcdf(disk, ds)
         /\ last_upd' = now
    ELSE UNCHANGED <<disk, last_upd, progress>>

\* control.py:168-170: zip(settable_pars, spts) sets settable k to column k.
SetAll(ins, pars, spts) ==
  [s \in Settables |->
     IF \E k \in 1..Min(Len(pars), Len(spts)) : pars[k] = s
       THEN spts[CHOOSE k \in 1..Min(Len(pars), Len(spts)) : pars[k] = s]
       ELSE ins[s]]

\* A slip in the row index: the value is stored counting from the far end.
ReadAll_mirrored(ds, ins, r) ==
  [ds EXCEPT !.y = [j \in 1..Len(ds.y) |->
     [ds.y[j] EXCEPT ![Len(ds.y[j]) - r + 1] = Signal(ins)]]]

\* control.py:172-174: every gettable is read and stored at row r.
ReadAll(ds, ins, r) ==
  [ds EXCEPT !.y = [j \in 1..Len(ds.y) |-> [ds.y[j] EXCEPT ![r] = Signal(ins)]]]

\* control.py:166-176: one row of the soft loop.  fail = 0: every call
\* returns; fail = k: the k-th set call raises, after k-1 settables were set;
\* fail = number of set calls + 1: the get call raises.
soft_iteration ==
  /\ pc = "soft_loop"
  /\ idx < Len(setpoints.rows)
  /\ LET spts == setpoints.rows[idx + 1]
         nset == Min(Len(settable_pars), Len(spts))
     IN \E fail \in 0..(nset + 1) :
          IF fail = 0
            THEN LET ins == SetAll(instr, settable_pars, spts)
                     ds  == ReadAll(dataset, ins, idx + 1)
                 IN /\ instr' = ins
                    /\ dataset' = ds
                    /\ nr_acquired_values' = nr_acquired_values + 1
                    /\ _update(nr_acquired_values + 1, ds)
                    /\ idx' = idx + 1
                    /\ UNCHANGED <<pc, err>>
            ELSE /\ instr' = SetAll(instr, SubSeq(settable_pars, 1, fail - 1), spts)
                 /\ pc' = "raised"
                 /\ err' = "InstrumentError"
                 /\ UNCHANGED <<dataset, nr_acquired_values, idx, disk, last_upd,
                                progress>>
  /\ UNCHANGED <<aux, session, config, begintime, now, is_internal, delivered,
                 prepared, finished, masked>>

\* control.py:166: the set-points are exhausted.
soft_loop_end ==
  /\ pc = "soft_loop"
  /\ idx = Len(setpoints.rows)
  /\ pc' = "finish"
  /\ UNCHANGED <<aux, session, probes, err, config, nr_acquired_values, begintime, last_upd, now,
                 runlocals, world>>

\* The block of one channel a bulk read returns when the source has handed
\* out d points before and now hands out the next n of its sample stream.
Block(d, n) == [j \in 1..n |-> 1 + ((d + j - 1) % MaxSample)]

\* control.py:182-185: dataset['y0'].values[j] = dp for j, dp in enumerate(row);
\* positions past the end of the array are not written (IndexError).
WriteBlock(ds, row) ==
  [ds EXCEPT !.y[1] =
     [k \in 1..Len(ds.y[1]) |-> IF k <= Len(row) THEN row[k] ELSE ds.y[1][k]]]

\* A slip in the count: the number of channels instead of the number of points.
points_gathered_rows(row) == IF Len(row) > 0 THEN 1 ELSE 0

\* control.py:181-185: points_gathered = len(row)
points_gathered(row) == Len(row)

\* control.py:178: while self._get_fracdone() < 100
LoopContinues(f) == f.num < FracDoneLimit * f.den

\* control.py:178-187: one evaluation of the while condition and, when it
\* holds, one bulk read.
hard_iteration ==
  /\ pc = "hard_loop"
  /\ LET f == _get_fracdone(nr_acquired_values) IN
     IF f.den = 0
       THEN /\ pc' = "raised"
            /\ err' = "ZeroDivisionError"
            /\ UNCHANGED <<nr_acquired_values, last_upd, dataset, delivered,
                           disk, progress>>
     ELSE IF ~LoopContinues(f)
       THEN /\ pc' = "finish"
            /\ UNCHANGED <<err, nr_acquired_values, last_upd, dataset, delivered,
                           disk, progress>>
     ELSE \/ /\ pc' = "raised"                     \* the bulk read raises
             /\ err' = "InstrumentError"
             /\ UNCHANGED <<nr_acquired_values, last_upd, dataset, delivered,
                            disk, progress>>
          \/ \E n \in 0..MaxBlock : LET row == Block(delivered, n) IN
            /\ delivered' = delivered + Len(row)
            /\ dataset' = WriteBlock(dataset, row)
            /\ IF Len(row) > Len(dataset.y[1])
                 THEN /\ pc' = "raised"
                      /\ err' = "IndexError"
                      /\ UNCHANGED <<nr_acquired_values, last_upd, disk, progress>>
                 ELSE /\ nr_acquired_values' = nr_acquired_values + points_gathered(row)
                      /\ _update(nr_acquired_values + points_gathered(row),
                                 WriteBlock(dataset, row))
                      /\ UNCHANGED <<pc, err>>
  /\ UNCHANGED <<aux, session, config, begintime, now, is_internal, idx, instr, prepared,
                 finished, masked>>

\* control.py:189
run_finish ==
  /\ pc = "finish"
  /\ \E fd \in [1..Len(FinishTargets) -> HookOutcomes] :
       LET fo == Outcomes(SettableHooks(FinishTargets), fd)
       IN /\ finished' = _finish(finished, fo)
          /\ masked' = (masked \/ Stopper(fo) = "AttributeError")
          /\ IF Stopper(fo) = "InstrumentError"
               THEN pc' = "raised" /\ err' = "InstrumentError"
               ELSE pc' = "wrapup" /\ UNCHANGED err
  /\ UNCHANGED <<aux, session, probes, config, nr_acquired_values, begintime, last_upd, now,
                 runlocals, instr, prepared, disk>>

\* A slip: the run ends without the final write.
run_wrapup_without_write ==
  /\ pc = "wrapup"
  /\ _plot_info' = [keys |-> {"2D-grid"}, grid |-> FALSE, xlen |-> 0, ylen |-> 0]
  /\ pc' = "done"
  /\ UNCHANGED <<aux, grid_axes, runs, probes, err, config, nr_acquired_values, begintime, last_upd,
                 now, runlocals, world>>

\* control.py:191-196: the final write; run returns the dataset.
run_wrapup ==
  /\ pc = "wrapup"
  /\ disk' = to_netcdf(disk, dataset)
  /\ _plot_info' = [keys |-> {"2D-grid"}, grid |-> FALSE, xlen |-> 0, ylen |-> 0]
  /\ pc' = "done"
  /\ UNCHANGED <<aux, grid_axes, runs, probes, err, config, nr_acquired_values, begintime, last_upd, now,
                 runlocals, instr, prepared, finished, masked>>

Next ==
  \/ Tick
  \/ \E pars \in SettableLists : set_setpars(pars)
  \/ \E n \in 0..MaxN, m \in 1..MaxCols : set_setpoints(n, m)
  \/ \E g \in Gettables : set_getpars(g)
  \/ \E v \in 1..MaxAvg : set_soft_avg(v)
  \/ \E v \in 0..MaxInterval : set_update_interval(v)
  \/ run_begin
  \/ run_create_container
  \/ run_prepare
  \/ soft_iteration
  \/ soft_loop_end
  \/ hard_iteration
  \/ run_finish
  \/ run_wrapup

Spec == Init /\ [][Next]_vars

\* ------------------------------------------------ one run after another
MaxRuns == 1      \* calls of run that are followed by another one

\* run has returned or raised; its locals are gone and the caller goes on.
run_return ==
  /\ pc \in {"done", "raised"}
  /\ runs < MaxRuns
  /\ runs' = runs + 1
  /\ pc' = "idle"
  /\ err' = "none"
  /\ is_internal' = FALSE
  /\ dataset' = NoDataset
  /\ idx' = 0
  /\ UNCHANGED <<aux, probes, config, _plot_info, grid_axes, nr_acquired_values,
                 begintime, last_upd, now, delivered, world>>

\* The lengths of the axes handed to set_setpoints_grid between runs.
RunAxes == {<<1>>, <<2>>, <<1, 2>>, <<2, 1>>}

\* Gettables that are stepped point by point.
SoftGettables == {g \in Gettables : is_internally_controlled(g)}

\* Set-points are configured by set_setpoints and set_setpoints_grid in any
\* order and runs of the soft loop follow one another.
NextRuns ==
  \/ \E pars \in SettableLists : set_setpars(pars)
  \/ \E n \in 1..MaxN, m \in 1..MaxCols : set_setpoints(n, m)
  \/ \E lens \in RunAxes : set_setpoints_grid(Axes(lens))
  \/ \E g \in SoftGettables : set_getpars(g)
  \/ run_begin
  \/ run_create_container
  \/ run_prepare
  \/ soft_iteration
  \/ soft_loop_end
  \/ run_finish
  \/ run_wrapup
  \/ run_return

SpecRuns == Init /\ [][NextRuns]_vars

\* -------------------------------------------------- grids of set-points
MaxAxes    == 3   \* axes handed to set_setpoints_grid
MaxAxisLen == 3   \* values on one axis

GridLens == UNION {[1..k -> 0..MaxAxisLen] : k \in 1..MaxAxes}

NextGrid == \E lens \in GridLens : set_setpoints_grid(Axes(lens))

SpecGrid == Init /\ [][NextGrid]_vars

\* ================================================================ claims
NrRows == Len(setpoints.rows)

\* run has passed _prepare / _finish and has not raised since.
InLoopOrLater == pc \in {"soft_loop", "hard_loop", "finish", "wrapup", "done"}
FinishDone    == pc \in {"wrapup", "done"}

\* --- C1.  run takes the soft loop exactly when the gettable is externally
\* controlled and the hard loop exactly when the gettable declares itself
\* internally controlled.
C1_SoftIffExternal ==
  /\ pc = "soft_loop" => ~is_internally_controlled(gettable_pars[1])
  /\ pc = "hard_loop" => is_internally_controlled(gettable_pars[1])

\* The value settable s holds while row i of the grid is being measured.
RowSetting(i, s) ==
  IF \E k \in 1..Len(settable_pars) : settable_pars[k] = s
    THEN setpoints.rows[i][CHOOSE k \in 1..Len(settable_pars) : settable_pars[k] = s]
    ELSE Unset

\* --- C2.  In the soft loop, after i rows the acquired-count is i, every
\* settable holds its value of row i, y{j}[r] is the signal read with the
\* settables at their row-r values for every r <= i and still not-a-number
\* for r > i; after run returns all N rows are done and the count is N.
C2_SoftLoopRowByRow ==
  (is_internal /\ InLoopOrLater) =>
    /\ nr_acquired_values = idx
    /\ idx > 0 => \A k \in 1..Len(settable_pars) :
                     instr[settable_pars[k]] = setpoints.rows[idx][k]
    /\ \A j \in 1..Len(dataset.y) : \A r \in 1..NrRows :
         dataset.y[j][r] =
           IF r <= idx
             THEN Signal([s \in Settables |-> RowSetting(r, s)])
             ELSE NaN
    /\ pc \in {"finish", "wrapup", "done"} => idx = NrRows

\* Set-points 0,1 on t with the gettable returning twice the value.
C2_Witness ==
  /\ pc = "done" /\ is_internal
  /\ settable_pars = <<"t">> /\ NrRows = 2
  /\ dataset.y[1] = <<0, 2>>
  /\ nr_acquired_values = 2

\* A step of the hard loop in which a bulk read returned at least one point.
BulkRead == pc = "hard_loop" /\ delivered' # delivered

\* --- C3.  In the hard loop a bulk read is issued only while the
\* acquired-count is below (number of rows x soft_avg).
C3_ReadsOnlyBelowTotal ==
  [][BulkRead => nr_acquired_values < NrRows * soft_avg]_vars

\* --- C4.  In the hard loop a block is written starting at the acquired-count
\* before it, so positions filled by earlier blocks keep their values.
C4_BlocksAtOffset ==
  [][BulkRead =>
       \A k \in 1..Len(dataset.y[1]) :
         k <= nr_acquired_values => dataset'.y[1][k] = dataset.y[1][k]]_vars

\* --- C5.  In a hard-loop run the acquired-count is the number of points of
\* all blocks delivered, and when run has returned the dataset file exists
\* and holds the returned dataset.
C5_HardCountIsDelivered ==
  (~is_internal /\ InLoopOrLater) =>
    /\ nr_acquired_values = delivered
    /\ pc = "done" => disk.has_dataset /\ disk.y = dataset.y

C5_Witness ==
  /\ pc = "done" /\ ~is_internal
  /\ NrRows = 2
  /\ delivered = nr_acquired_values
  /\ delivered > FracDoneLimit

\* No settable, no set-point grid or no gettable has been configured.
Unconfigured ==
  settable_pars = <<>> \/ ~setpoints.isarray \/ gettable_pars = <<>>

\* --- C6.  run on an unconfigured loop fails with ConfigurationError and
\* never gets as far as the acquisition.
C6_UnconfiguredIsConfigurationError ==
  Unconfigured =>
    /\ ~InLoopOrLater
    /\ pc = "raised" => err = "ConfigurationError"

\* --- C7.  A run over an empty grid is rejected while the dataset is built
\* (EmptySweepError), so fraction-done is never computed over zero.
C7_EmptyGridRejected ==
  /\ (setpoints.isarray /\ NrRows = 0 /\ gettable_pars # <<>> /\ pc # "idle") =>
        pc = "raised" /\ err = "EmptySweepError"
  /\ err # "ZeroDivisionError"

\* The only exception of the model that is not caused by the configuration:
\* a bulk read returned more points than the arrays hold.
BlockOverflow == err = "IndexError" /\ dataset.built

C9_EveryPrepareHookOnce ==
  InLoopOrLater =>
    /\ \A k \in 1..Len(settable_pars) :
         prepared[settable_pars[k]] =
           IF SettableHasHooks(settable_pars[k]) THEN 1 ELSE 0
    /\ prepared["gettable"] = IF gettable_pars[1].hooks THEN 1 ELSE 0

\* --- C10.  After the finish step (before the final flush and after it)
\* every settable and gettable that has a finish hook has had it called
\* exactly once, whatever hooks the others lack.
C10_EveryFinishHookOnce ==
  FinishDone =>
    /\ \A k \in 1..Len(settable_pars) :
         finished[settable_pars[k]] =
           IF SettableHasHooks(settable_pars[k]) THEN 1 ELSE 0
    /\ finished["gettable"] = IF gettable_pars[1].hooks THEN 1 ELSE 0

\* --- C11.  Of the exceptions a prepare or finish hook can end with, only the
\* absence of the hook is swallowed: an exception raised inside a hook is
\* never dropped; and once an exception has left run there is no further
\* set, get or hook call and the files on disk stay as last flushed.
C11_OnlyAbsenceSwallowed ==
  [][/\ ~masked'
     /\ pc = "raised" => UNCHANGED <<pc, instr, delivered, dataset, prepared,
                                     finished, nr_acquired_values, disk>>]_vars

\* Number of entries of an array that hold a value.
ValidCount(arr) == Cardinality({r \in 1..Len(arr) : arr[r] # NaN})

\* A row of the soft loop after which the throttled step wrote the file.
ThrottledFlush == pc = "soft_loop" /\ disk' # disk

\* Every array of the file has the pre-allocated length.
DiskFullLength ==
  /\ \A i \in 1..Len(disk.x) : Len(disk.x[i]) = NrRows
  /\ \A j \in 1..Len(disk.y) : Len(disk.y[j]) = NrRows

\* --- C12 as claimed.  The file of a soft-loop run has all arrays at full
\* length and, after the N-th throttled flush, values exactly at the indices
\* below N: every throttled flush makes exactly one more index valid.
C12_NthFlushHasNValues ==
  [][ThrottledFlush =>
       \A j \in 1..Len(disk.y) :
         ValidCount(disk'.y[j]) = ValidCount(disk.y[j]) + 1]_vars

\* --- C12 amended.  At every point of a soft-loop run the file has all arrays
\* at full length, and its gettable arrays hold the measured values at the
\* indices below K and not-a-number from K on, where K is the acquired-count
\* at the last flush (a throttled flush writes all values acquired so far).
C12_FileIsFlushedPrefix ==
  /\ [](is_internal /\ disk.has_dataset =>
          /\ DiskFullLength
          /\ \A j \in 1..Len(disk.y) :
               \E K \in 0..nr_acquired_values :
                 \A r \in 1..NrRows :
                   disk.y[j][r] = IF r <= K THEN dataset.y[j][r] ELSE NaN)
  /\ [][ThrottledFlush =>
          \A j \in 1..Len(disk.y) :
            ValidCount(disk'.y[j]) = nr_acquired_values']_vars

\* Interrupted by a raising instrument call after one flush of a two-row run.
C12_Witness ==
  /\ pc = "raised" /\ err = "InstrumentError" /\ is_internal
  /\ NrRows = 2 /\ idx = 1
  /\ ValidCount(disk.y[1]) = 1 /\ disk.y[1][2] = NaN

\* --- C21.  Every value handed to the progress callback during a run is a
\* percentage between 0 and 100 inclusive.
C21_ProgressIsPercentage == progress # "beyond"

\* A loop step that acquired something and called _update.
UpdateInvoked ==
  /\ pc \in {"soft_loop", "hard_loop"} /\ pc' = pc
  /\ nr_acquired_values' > nr_acquired_values

\* The loop step after which the loop ends: the acquisition is complete.
CompletesAcquisition ==
  /\ UpdateInvoked
  /\ \/ pc = "soft_loop" /\ idx' = NrRows
     \/ pc = "hard_loop" /\ ~LoopContinues(_get_fracdone(nr_acquired_values'))

\* The flush happened in this step: file, callback and last-flush time.
Flushed ==
  /\ disk' = to_netcdf(disk, dataset')
  /\ progress' # "none"
  /\ last_upd' = now

\* --- C22.  The step called after every acquired point or block fires if
\* and only if the time since the last flush exceeds update_interval or the
\* acquired-count has just reached the number of set-points; firing
\* overwrites the file, calls the progress callback and sets the last-flush
\* time to now, not firing leaves file and last-flush time alone; and it
\* always fires on the point that completes the acquisition.
C22_FlushIffDueOrComplete ==
  [][/\ UpdateInvoked =>
          IF now - last_upd > update_interval \/ nr_acquired_values' = NrRows
            THEN Flushed
            ELSE UNCHANGED <<disk, last_upd, progress>>
     /\ CompletesAcquisition => Flushed]_vars

\* The container holds the baseline files.
HasBaseline == disk.folder /\ disk.has_dataset /\ disk.snapshot

\* This step makes a call on an instrument: a hook, a set or a get.
InstrumentCall ==
  \/ prepared' # prepared
  \/ finished' # finished
  \/ instr' # instr
  \/ delivered' # delivered
  \/ nr_acquired_values' > nr_acquired_values
  \/ pc' = "raised" /\ err' = "InstrumentError"

\* --- C23.  The container is created and the dataset file and the snapshot
\* file are written before the first prepare hook, set call or get call: a
\* step that calls an instrument starts with both files in place, and from
\* the loop on the container holds them.
C23_BaselineBeforeInstruments ==
  /\ [](InLoopOrLater \/ (pc = "raised" /\ err = "InstrumentError") => HasBaseline)
  /\ [][InstrumentCall => HasBaseline /\ HasBaseline']_vars

\* The first row of a soft loop has been set and read.
C23_Witness ==
  /\ pc = "soft_loop" /\ idx = 1
  /\ instr["t"] # Unset
  /\ prepared["t"] = 1
  /\ HasBaseline
  /\ disk.y[1][1] # NaN

\* --- C24.  At the start of every run the bookkeeping is reset: the
\* acquired-count is 0, the loop start time is the time of this run's start
\* and the last-flush time is reset as well.
C24_BookkeepingReset ==
  [][pc = "idle" /\ pc' = "initialized" =>
       /\ nr_acquired_values' = 0
       /\ begintime' = now
       /\ last_upd' = now]_vars

C27_ReturnsAtExactlyAllPoints ==
  pc = "done" => nr_acquired_values = NrRows * soft_avg

\* The set-points of this run came from set_setpoints_grid with two axes.
TwoAxisGrid == grid_axes # <<>> /\ Len(grid_axes) = 2

\* --- C26.  The dataset a run returns carries 2D-grid = True together with
\* xlen and ylen exactly when the set-points it used were configured by
\* set_setpoints_grid with two axes, xlen and ylen being the lengths of
\* those axes; otherwise it carries no xlen or ylen and 2D-grid is not True.
C26_HintsMatchConfiguration ==
  pc = "done" =>
    IF TwoAxisGrid
      THEN /\ {"2D-grid", "xlen", "ylen"} \subseteq dataset.attrs
           /\ dataset.hints.grid
           /\ dataset.hints.xlen = Len(grid_axes[1])
           /\ dataset.hints.ylen = Len(grid_axes[2])
      ELSE /\ "xlen" \notin dataset.attrs
           /\ "ylen" \notin dataset.attrs
           /\ ~("2D-grid" \in dataset.attrs /\ dataset.hints.grid)

\* The product of the lengths of the axes.
RECURSIVE GridSize(_)
GridSize(axes) ==
  IF axes = <<>> THEN 1 ELSE Len(axes[1]) * GridSize(Tail(axes))

\* One position on every axis.
Combinations(axes) ==
  {c \in [1..Len(axes) -> 1..MaxAxisLen] : \A k \in 1..Len(axes) : c[k] <= Len(axes[k])}

\* --- C28.  The grid set_setpoints_grid installs for axes x0..xn is the one
\* tile_setpoints_grid returns: it has len(x0) x ... x len(xn) rows, one
\* column per axis, and every combination of one value per axis is in
\* exactly one row.
C28_GridIsCartesianProduct ==
  grid_axes # <<>> =>
    /\ setpoints.isarray
    /\ setpoints.rows = tile_setpoints_grid(grid_axes)
    /\ Len(setpoints.rows) = GridSize(grid_axes)
    /\ setpoints.ncols = Len(grid_axes)
    /\ \A r \in 1..Len(setpoints.rows) : Len(setpoints.rows[r]) = Len(grid_axes)
    /\ \A c \in Combinations(grid_axes) :
         Cardinality({r \in 1..Len(setpoints.rows) :
                        \A k \in 1..Len(grid_axes) :
                          setpoints.rows[r][k] = grid_axes[k][c[k]]}) = 1

\* Three axes of 2, 3 and 2 values: twelve rows, the first axis running
\* fastest.
C28_Witness ==
  /\ Len(grid_axes) = 3
  /\ Len(grid_axes[1]) = 2 /\ Len(grid_axes[2]) = 3 /\ Len(grid_axes[3]) = 2
  /\ Len(setpoints.rows) = 12
  /\ setpoints.rows[2] = <<1, 10, 20>>
  /\ setpoints.rows[3] = <<0, 11, 20>>
  /\ setpoints.rows[12] = <<1, 12, 21>>

\* ============================================================== gen_tuid
\* Strings are sequences of character codes.
Dash == 45
Dot  == 46
Zero == 48
IsDigit(ch) == ch \in 48..57
IsHex(ch)   == ch \in 48..57 \cup 97..102

\* The decimal digits of a natural number.
RECURSIVE Dec(_)
Dec(n) == IF n < 10 THEN <<Zero + n>> ELSE Dec(n \div 10) \o <<Zero + (n % 10)>>

\* Zeros in front up to a width of w, as %0wd does.
RECURSIVE ZeroPad(_, _)
ZeroPad(str, w) == IF Len(str) >= w THEN str ELSE ZeroPad(<<Zero>> \o str, w)

\* int() of a string of decimal digits.
RECURSIVE ParseInt(_)
ParseInt(str) ==
  IF str = <<>> THEN 0
  ELSE 10 * ParseInt(SubSeq(str, 1, Len(str) - 1)) + (str[Len(str)] - Zero)

\* str.split('.') of a string with one dot: the parts before and after it.
DotAt(str)    == CHOOSE k \in 1..Len(str) : str[k] = Dot
SplitDot(str) == <<SubSeq(str, 1, DotAt(str) - 1), SubSeq(str, DotAt(str) + 1, Len(str))>>

\* a < b in Python's order of strings (and of tuples of numbers).
RECURSIVE SeqLess(_, _)
SeqLess(a, b) ==
  IF b = <<>> THEN FALSE
  ELSE IF a = <<>> THEN TRUE
  ELSE IF a[1] # b[1] THEN a[1] < b[1]
  ELSE SeqLess(Tail(a), Tail(b))

\* ts.strftime('%Y%m%d-%H%M%S-.%f'); %Y has four digits for the years drawn.
strftime(ts) ==
  Dec(ts.year) \o ZeroPad(Dec(ts.month), 2) \o ZeroPad(Dec(ts.day), 2) \o <<Dash>>
  \o ZeroPad(Dec(ts.hour), 2) \o ZeroPad(Dec(ts.minute), 2)
  \o ZeroPad(Dec(ts.second), 2) \o <<Dash, Dot>> \o ZeroPad(Dec(ts.micro), 6)

\* A slip: "%d" instead of "%03d".
gen_tuid_unpadded(ts, uuid) ==
  LET parts == SplitDot(strftime(ts))
  IN parts[1] \o Dec(ParseInt(parts[2]) \div 1000) \o <<Dash>> \o SubSeq(uuid, 1, 6)

\* data_handling.gen_tuid, uuid being str(uuid4()).
gen_tuid(ts, uuid) ==
  LET parts == SplitDot(strftime(ts))
  IN parts[1] \o ZeroPad(Dec(ParseInt(parts[2]) \div 1000), 3) \o <<Dash>>
     \o SubSeq(uuid, 1, 6)

\* The timestamps and random tokens the calls are made with.
Timestamps ==
  [year : {1999, 2020}, month : {9, 10}, day : {30}, hour : {9, 10},
   minute : {59}, second : {5}, micro : {0, 999, 1000, 999999}]

Uuids == {<<48, 48, 48, 48, 48, 48, 48, 48>>, <<102, 102, 102, 102, 102, 102, 102, 102>>}

InitTuid ==
  /\ ControlInit
  /\ DsIdle
  /\ FsIdle
  /\ HelpersIdle
  /\ ts_in \in Timestamps \X Timestamps
  /\ uuid_in \in Uuids \X Uuids
  /\ tuid_out = <<>>

\* One call gen_tuid(ts).
call_gen_tuid ==
  /\ Len(tuid_out) < Len(ts_in)
  /\ tuid_out' = Append(tuid_out, gen_tuid(ts_in[Len(tuid_out) + 1],
                                           uuid_in[Len(tuid_out) + 1]))
  /\ UNCHANGED <<control, helpers, dsfuns, fsys, ts_in, uuid_in>>

NextTuid == call_gen_tuid

SpecTuid == InitTuid /\ [][NextTuid]_vars

\* A timestamp at millisecond granularity, in chronological order.
MsKey(ts) == <<ts.year, ts.month, ts.day, ts.hour, ts.minute, ts.second,
               ts.micro \div 1000>>

\* YYYYMMDD-HHMMSS-mmm-xxxxxx
WellFormedTuid(t) ==
  /\ Len(t) = 26
  /\ \A k \in 1..26 :
       IF k \in {9, 16, 20} THEN t[k] = Dash
       ELSE IF k < 20 THEN IsDigit(t[k])
       ELSE IsHex(t[k])

\* --- C13.  Every identifier gen_tuid returns has the 26-character form
\* YYYYMMDD-HHMMSS-mmm-xxxxxx, its millisecond segment being the three digits
\* of the timestamp's milliseconds; and of two timestamps that differ at
\* millisecond granularity the earlier one gets the identifier that sorts
\* first, whatever the random suffixes.
C13_TuidFormAndOrder ==
  /\ \A k \in 1..Len(tuid_out) :
       /\ WellFormedTuid(tuid_out[k])
       /\ ParseInt(SubSeq(tuid_out[k], 17, 19)) = ts_in[k].micro \div 1000
       /\ ParseInt(SubSeq(tuid_out[k], 1, 4)) = ts_in[k].year
       /\ ParseInt(SubSeq(tuid_out[k], 14, 15)) = ts_in[k].second
  /\ Len(tuid_out) = 2 =>
       /\ SeqLess(MsKey(ts_in[1]), MsKey(ts_in[2])) =>
            SeqLess(tuid_out[1], tuid_out[2])
       /\ SeqLess(MsKey(ts_in[2]), MsKey(ts_in[1])) =>
            SeqLess(tuid_out[2], tuid_out[1])

\* The clock reports 0 microseconds, the later call is one millisecond later
\* and draws the smaller suffix.
C13_Witness ==
  /\ Len(tuid_out) = 2
  /\ ts_in[1].micro = 0 /\ ts_in[2] = [ts_in[1] EXCEPT !.micro = 1000]
  /\ SubSeq(tuid_out[1], 17, 19) = <<48, 48, 48>>
  /\ SubSeq(tuid_out[2], 17, 19) = <<48, 48, 49>>
  /\ SeqLess(SubSeq(tuid_out[2], 21, 26), SubSeq(tuid_out[1], 21, 26))
  /\ SeqLess(tuid_out[1], tuid_out[2])

\* ===================================================== dataset functions
MaxGets == 2      \* gettables handed to initialize_dataset
MaxGrow == 3      \* largest length a dataset is grown to
MaxCalls == 5     \* calls made on one dataset

\* The first k of two gettables.
GettableLists ==
  {SubSeq(<<[internal |-> TRUE, hooks |-> FALSE],
            [internal |-> FALSE, hooks |-> TRUE]>>, 1, k) : k \in 0..MaxGets}

\* An N x M array of set-points.
Grid(n, m) == [isarray |-> TRUE, ncols |-> m, rows |-> GridRows(n, m)]

\* len(dset['x0']): the length of the acquisition dimension.
Length(ds) == IF ds.x # <<>> THEN Len(ds.x[1])
              ELSE IF ds.y # <<>> THEN Len(ds.y[1]) ELSE 0

\* Every array of the dataset, settable arrays first.
Arrays(ds) == ds.x \o ds.y

\* dset['y<j>'].values[r] = v
store(ds, j, r, v) == [ds EXCEPT !.y[j][r] = v]

\* An array extended to n entries, the new ones not-a-number.
Pad(arr, n) == [r \in 1..n |-> IF r <= Len(arr) THEN arr[r] ELSE NaN]

\* A slip: only the gettable arrays are extended.
grow_dataset_y_only(ds, n) ==
  [ds EXCEPT !.y = [j \in 1..Len(ds.y) |-> Pad(ds.y[j], n)]]

\* grow(dataset, target_length)
grow_dataset(ds, n) ==
  [ds EXCEPT !.x = [i \in 1..Len(ds.x) |-> Pad(ds.x[i], n)],
             !.y = [j \in 1..Len(ds.y) |-> Pad(ds.y[j], n)]]

\* trim(dataset, actual_length)
trim_dataset(ds, n) ==
  [ds EXCEPT !.x = [i \in 1..Len(ds.x) |-> SubSeq(ds.x[i], 1, n)],
             !.y = [j \in 1..Len(ds.y) |-> SubSeq(ds.y[j], 1, n)]]

InitDataset ==
  /\ ControlInit
  /\ TuidIdle
  /\ FsIdle
  /\ HelpersIdle
  /\ ds_args \in {<<pars, Grid(n, m), gets>> :
                    pars \in SettableLists, n \in 0..MaxN, m \in 1..MaxCols,
                    gets \in GettableLists}
  /\ dset = NoDataset
  /\ dset0 = NoDataset
  /\ ds_log = <<>>

\* dset = initialize_dataset(setable_pars, setpoints, getable_pars)
call_initialize_dataset ==
  /\ ds_log = <<>>
  /\ LET e == initialize_dataset_error(ds_args[1], ds_args[2]) IN
     IF e # "none"
       THEN /\ ds_log' = <<e>>
            /\ UNCHANGED dset
       ELSE /\ ds_log' = <<"initialize">>
            /\ dset' = initialize_dataset(ds_args[1], ds_args[2], ds_args[3])
  /\ UNCHANGED <<control, helpers, tuidgen, fsys, ds_args, dset0>>

\* The caller writes a measured value into a gettable array.
call_store ==
  /\ dset.built
  /\ Len(ds_log) < MaxCalls
  /\ ds_log' = Append(ds_log, "store")
  /\ \E j \in 1..Len(dset.y), r \in 1..Length(dset) :
       /\ dset.y[j][r] = NaN
       /\ dset' = store(dset, j, r, r)
  /\ UNCHANGED <<control, helpers, tuidgen, fsys, ds_args, dset0>>

call_grow_dataset ==
  /\ dset.built
  /\ Len(ds_log) < MaxCalls
  /\ \E n \in (Length(dset) + 1)..MaxGrow :
       dset' = grow_dataset(dset, n)
  /\ dset0' = dset
  /\ ds_log' = Append(ds_log, "grow")
  /\ UNCHANGED <<control, helpers, tuidgen, fsys, ds_args>>

call_trim_dataset ==
  /\ dset.built
  /\ Len(ds_log) < MaxCalls
  /\ \E n \in 0..Length(dset) :
       dset' = trim_dataset(dset, n)
  /\ ds_log' = Append(ds_log, "trim")
  /\ UNCHANGED <<control, helpers, tuidgen, fsys, ds_args, dset0>>

NextDataset ==
  \/ call_initialize_dataset
  \/ call_store
  \/ call_grow_dataset
  \/ call_trim_dataset

SpecDataset == InitDataset /\ [][NextDataset]_vars

\* --- C14.  initialize_dataset for M >= 1 settables, K gettables and an
\* N x M grid returns exactly M settable arrays x0..x{M-1} and K gettable
\* arrays y0..y{K-1}, all of length N, x{i} being column i of the grid and
\* every y{j} all not-a-number, and the only metadata key is tuid.
C14_InitializedDataset ==
  [][ds_log = <<>> /\ ds_log' = <<"initialize">>
       /\ ds_args[2].ncols = Len(ds_args[1]) =>
     LET M == Len(ds_args[1])
         K == Len(ds_args[3])
         N == Len(ds_args[2].rows)
     IN /\ Len(dset'.x) = M /\ Len(dset'.y) = K
        /\ Len(Arrays(dset')) = M + K
        /\ DOMAIN dset' = {"built", "x", "y", "attrs"}
        /\ \A a \in 1..(M + K) : Len(Arrays(dset')[a]) = N
        /\ \A i \in 1..M : \A r \in 1..N :
             dset'.x[i][r] = ds_args[2].rows[r][i]
        /\ \A j \in 1..K : \A r \in 1..N : dset'.y[j][r] = NaN
        /\ dset'.attrs = {"tuid"}]_vars

\* Two settables, two gettables and a 2 x 2 grid.
C14_Witness ==
  /\ ds_log = <<"initialize">>
  /\ Len(ds_args[1]) = 2 /\ ds_args[2].ncols = 2 /\ Len(ds_args[3]) = 2
  /\ Len(ds_args[2].rows) = 2
  /\ dset.x = <<<<0, 1>>, <<10, 11>>>>
  /\ dset.y = <<<<NaN, NaN>>, <<NaN, NaN>>>>

\* The last k calls made on the dataset.
LastCalls(k) == IF Len(ds_log) < k THEN <<>>
                ELSE SubSeq(ds_log, Len(ds_log) - k + 1, Len(ds_log))

\* All arrays of the dataset have one length.
EqualLengths(ds) == \A a \in 1..Len(Arrays(ds)) : Len(Arrays(ds)[a]) = Length(ds)

MaxDirs == 2      \* directories made below the data directories

Slash == 47

\* data_handling._default_datadir, a directory the user sets, and ''.
DefaultDatadir == <<47, 100>>
UserDir        == <<47, 117>>
EmptyStr       == <<>>

\* The experiment name 'run', and 'tmp': a directory the user made by hand.
RunName   == <<114, 117, 110>>
StrayName == <<116, 109, 112>>

\* sub in x
Contains(x, sub) ==
  \E i \in 0..(Len(x) - Len(sub)) : SubSeq(x, i + 1, i + Len(sub)) = sub

\* x[a:b] of Python: indices past the end are cut off.
Slice(x, a, b) == SubSeq(x, a + 1, Min(b, Len(x)))

\* os.path.join of the components of a path; a leading '' is dropped.
RECURSIVE PathStr(_)
PathStr(p) ==
  IF Len(p) = 1 THEN p[1]
  ELSE LET head == PathStr(SubSeq(p, 1, Len(p) - 1))
       IN (IF head = <<>> THEN <<>> ELSE head \o <<Slash>>) \o p[Len(p)]

\* os.listdir(p) and os.path.isdir(p); the data directories themselves exist.
ListDir(t, p) ==
  {q[Len(p) + 1] : q \in {q \in t : Len(q) > Len(p) /\ SubSeq(q, 1, Len(p)) = p}}
IsDir(t, p) ==
  Len(p) = 1 \/ \E q \in t : Len(q) >= Len(p) /\ SubSeq(q, 1, Len(p)) = p

\* TUID.is_valid
TUID_is_valid(t) == WellFormedTuid(t)

\* data_handling.get_datadir: the value it returns and stores.
get_datadir(dd) == IF dd = None THEN DefaultDatadir ELSE dd

\* A slip: tuid[8:] for the folder.
exp_folder_with_dash(dd, tuid, name) ==
  <<dd, Slice(tuid, 0, 8),
    Slice(tuid, 8, Len(tuid)) \o (IF name # <<>> THEN <<Dash>> \o name ELSE <<>>)>>

\* create_exp_folder, data_handling.py:144-146: the components of exp_folder.
exp_folder(dd, tuid, name) ==
  <<dd, Slice(tuid, 0, 8),
    Slice(tuid, 9, Len(tuid)) \o (IF name # <<>> THEN <<Dash>> \o name ELSE <<>>)>>

\* The identifiers in use: two days, two times of day.
FsStamps ==
  {[year |-> 2020, month |-> 4, day |-> dy, hour |-> h, minute |-> h,
    second |-> h, micro |-> 0] : dy \in {29, 30}, h \in {0, 10}}
FsUuid(ts) == IF ts.hour = 0 THEN <<102, 102, 102, 102, 102, 102, 102, 102>>
              ELSE <<48, 48, 48, 48, 48, 48, 48, 48>>
FsTuids == {gen_tuid(ts, FsUuid(ts)) : ts \in FsStamps}

\* The date+time prefix of an identifier.
DateTime(t) == Slice(t, 0, 15)

Names == {EmptyStr, RunName}

Raise(e) == [raised |-> e, returns |-> "None", result |-> None]
Return(kind, v) == [raised |-> "none", returns |-> kind, result |-> v]

Called(op, args, kw, existed, out) ==
  [op |-> op, args |-> args, kw |-> kw, existed |-> existed,
   raised |-> out.raised, returns |-> out.returns, result |-> out.result]

InitFs == ControlInit /\ TuidIdle /\ DsIdle /\ FsIdle /\ HelpersIdle

\* get_datadir()
call_get_datadir ==
  /\ datadir' = get_datadir(datadir)
  /\ fs_call' = Called("get_datadir", <<>>, NoKw, FALSE, Return("str", datadir'))
  /\ UNCHANGED <<control, helpers, tuidgen, dsfuns, tree, files>>

\* set_datadir(datadir)
call_set_datadir ==
  /\ \E v \in {None, EmptyStr, UserDir} :
       /\ datadir' = v
       /\ fs_call' = Called("set_datadir", <<v>>, NoKw, FALSE, Return("None", None))
  /\ UNCHANGED <<control, helpers, tuidgen, dsfuns, tree, files>>

\* create_exp_folder(tuid, name)
call_create_exp_folder ==
  /\ \E tuid \in FsTuids \cup {DateTime(t) : t \in FsTuids}, name \in Names :
       IF ~TUID_is_valid(tuid)
         THEN /\ fs_call' = Called("create_exp_folder", <<tuid, name>>, NoKw, FALSE,
                                   Raise("AssertionError"))
              /\ UNCHANGED <<datadir, tree>>
         ELSE LET folder == exp_folder(get_datadir(datadir), tuid, name) IN
              /\ folder \in tree \/ Cardinality(tree) < MaxDirs
              /\ datadir' = get_datadir(datadir)
              /\ tree' = tree \cup {folder}
              /\ fs_call' = Called("create_exp_folder", <<tuid, name>>, NoKw,
                                   IsDir(tree, folder),
                                   Return("str", PathStr(folder)))
  /\ UNCHANGED <<control, helpers, tuidgen, dsfuns, files>>

\* control.py:149-151: the dataset is written into the folder just created.
write_dataset ==
  /\ fs_call.op = "create_exp_folder"
  /\ fs_call.raised = "none"
  /\ LET tuid   == fs_call.args[1]
         folder == exp_folder(datadir, tuid, fs_call.args[2])
     IN /\ files' = {f \in files : f[1] # folder} \cup {<<folder, tuid>>}
        /\ fs_call' = Called("to_netcdf", <<tuid, fs_call.args[2]>>, NoKw, FALSE,
                             Return("None", None))
  /\ UNCHANGED <<control, helpers, tuidgen, dsfuns, datadir, tree>>

\* The user makes a directory by hand, in the data directory or in a day.
mkdir ==
  /\ Cardinality(tree) < MaxDirs
  /\ \E t \in FsTuids :
       \E p \in {<<get_datadir(datadir), StrayName>>,
                 <<get_datadir(datadir), Slice(t, 0, 8), StrayName>>} :
         /\ p \notin tree
         /\ tree' = tree \cup {p}
  /\ fs_call' = Called("mkdir", <<>>, NoKw, FALSE, Return("None", None))
  /\ UNCHANGED <<control, helpers, tuidgen, dsfuns, datadir, files>>

\* xr.load_dataset(join(folder, 'dataset.hdf5'))
xr_load_dataset(f, folder) ==
  IF \E d \in f : d[1] = folder
    THEN Return("dataset", (CHOOSE d \in f : d[1] = folder)[2])
    ELSE Raise("FileNotFoundError")

\* data_handling.load_dataset: every outcome it can have.  os.listdir lists
\* in arbitrary order, so exp_folders[0] is any of the folders that matched.
load_dataset(dd, t, f, tuid) ==
  LET daydir == <<dd, Slice(tuid, 0, 8)>>
      exp_folders == {x \in ListDir(t, daydir) :
                        Contains(x, Slice(tuid, 9, Len(tuid)))}
  IN IF ~IsDir(t, daydir) \/ exp_folders = {}
       THEN {Raise("FileNotFoundError")}
       ELSE {xr_load_dataset(f, daydir \o <<x>>) : x \in exp_folders}

call_load_dataset ==
  /\ \E tuid \in FsTuids \cup {DateTime(t) : t \in FsTuids} :
       \E out \in load_dataset(get_datadir(datadir), tree, files, tuid) :
         fs_call' = Called("load_dataset", <<tuid>>, NoKw, FALSE, out)
  /\ datadir' = get_datadir(datadir)
  /\ UNCHANGED <<control, helpers, tuidgen, dsfuns, tree, files>>

\* The greatest of a set of strings: sort(reverse=True)[0].
Greatest(S) == CHOOSE m \in S : \A o \in S : ~SeqLess(m, o)

\* A slip: the list is sorted ascending.
get_latest_tuid_oldest(dd, t, contains) ==
  LET Least(S) == CHOOSE m \in S : \A o \in S : ~SeqLess(o, m)
      daydirs == {x \in ListDir(t, <<dd>>) :
                    (\A k \in 1..Len(x) : IsDigit(x[k])) /\ Len(x) = 8}
      expdirs(d) == {x \in ListDir(t, <<dd, d>>) :
                       /\ \A k \in 1..Min(6, Len(x)) : IsDigit(x[k])
                       /\ x[7] = Dash
                       /\ Len(x) > 12
                       /\ Contains(x, contains)}
      found == {d \in daydirs : expdirs(d) # {}}
  IN IF daydirs = {} \/ found = {} THEN Raise("FileNotFoundError")
     ELSE Return("str", Least(found) \o <<Dash>>
                          \o Slice(Least(expdirs(Least(found))), 0, 17))

\* data_handling.get_latest_tuid: the first day, latest first, that has a
\* matching folder, and the latest matching folder in it.
get_latest_tuid(dd, t, contains) ==
  LET daydirs == {x \in ListDir(t, <<dd>>) :
                    (\A k \in 1..Len(x) : IsDigit(x[k])) /\ Len(x) = 8}
      expdirs(d) == {x \in ListDir(t, <<dd, d>>) :
                       /\ \A k \in 1..Min(6, Len(x)) : IsDigit(x[k])
                       /\ x[7] = Dash
                       /\ Len(x) > 12
                       /\ Contains(x, contains)}
      found == {d \in daydirs : expdirs(d) # {}}
  IN IF daydirs = {} \/ found = {} THEN Raise("FileNotFoundError")
     ELSE Return("str", Greatest(found) \o <<Dash>>
                          \o Slice(Greatest(expdirs(Greatest(found))), 0, 17))

call_get_latest_tuid ==
  /\ \E contains \in {EmptyStr, RunName} :
       fs_call' = Called("get_latest_tuid", <<contains>>, NoKw, FALSE,
                         get_latest_tuid(get_datadir(datadir), tree, contains))
  /\ datadir' = get_datadir(datadir)
  /\ UNCHANGED <<control, helpers, tuidgen, dsfuns, tree, files>>

\* The keyword arguments a caller passes to get_tuids_containing.
Keywords ==
  {NoKw} \cup
  {[given |-> TRUE, t_start |-> w[1], t_stop |-> w[2], max_results |-> 1,
    reverse |-> r] :
     w \in {<<None, None>>} \cup
           {<<DateTime(a), DateTime(b)>> :
              a \in {t \in FsTuids : Slice(t, 9, 11) = <<49, 48>>},
              b \in {t \in FsTuids : Slice(t, 6, 8) = <<51, 48>>}},
     r \in BOOLEAN}

\* data_handling.get_tuids_containing(contains=''): the body is pass.  A
\* keyword the signature does not have is a TypeError of the call.
get_tuids_containing(contains, kw) ==
  IF kw.given THEN Raise("TypeError") ELSE Return("None", None)

call_get_tuids_containing ==
  /\ \E contains \in {EmptyStr, RunName}, kw \in Keywords :
       fs_call' = Called("get_tuids_containing", <<contains>>, kw, FALSE,
                         get_tuids_containing(contains, kw))
  /\ UNCHANGED <<control, helpers, tuidgen, dsfuns, datadir, tree, files>>

\* The data directory is set and queried, and folders are made in it.
NextDatadir ==
  \/ call_get_datadir
  \/ call_set_datadir
  \/ call_create_exp_folder
  \/ write_dataset

SpecDatadir == InitFs /\ [][NextDatadir]_vars

\* Experiments are stored in the default data directory and looked up.
NextFs ==
  \/ call_create_exp_folder
  \/ write_dataset
  \/ mkdir
  \/ call_load_dataset
  \/ call_get_latest_tuid
  \/ call_get_tuids_containing

SpecFs == InitFs /\ [][NextFs]_vars

\* --- C16.  create_exp_folder with a valid tuid raises nothing, returns
\* datadir/tuid[:8]/tuid[9:] (with '-name' appended when name is not empty),
\* that directory exists afterwards, no file changes, and when the directory
\* existed already nothing on disk changes.
C16_CreateIdempotent ==
  [][fs_call'.op = "create_exp_folder" /\ TUID_is_valid(fs_call'.args[1]) =>
       LET tuid == fs_call'.args[1]
           name == fs_call'.args[2]
           path == (IF datadir' = <<>> THEN <<>> ELSE datadir' \o <<Slash>>)
                   \o SubSeq(tuid, 1, 8) \o <<Slash>> \o SubSeq(tuid, 10, 26)
                   \o (IF name = <<>> THEN <<>> ELSE <<Dash>> \o name)
       IN /\ fs_call'.raised = "none"
          /\ fs_call'.result = path
          /\ \E d \in tree' : PathStr(d) = path
          /\ files' = files
          /\ (\E d \in tree : PathStr(d) = path) => tree' = tree]_vars

\* The call is repeated on a folder that holds a dataset.
C16_Witness ==
  /\ fs_call.op = "create_exp_folder"
  /\ fs_call.existed
  /\ fs_call.raised = "none"
  /\ fs_call.args[2] = RunName
  /\ datadir = UserDir
  /\ \E f \in files : PathStr(f[1]) = fs_call.result

\* The identifier of an experiment folder: its day and the first 17
\* characters of its name.
TuidOf(p) == p[2] \o <<Dash>> \o Slice(p[3], 0, 17)

\* The experiment folders of the data directory whose TUID begins with q.
Resolving(q) ==
  {p \in tree : Len(p) = 3 /\ p[1] = datadir /\ Slice(TuidOf(p), 0, Len(q)) = q}

\* --- C17.  load_dataset of a full TUID or of its date+time prefix returns
\* the dataset of the one experiment folder whose TUID begins with the
\* identifier, if there is exactly one (and it holds a dataset), and raises
\* FileNotFoundError if there is none.
C17_LoadResolvesByPrefix ==
  fs_call.op = "load_dataset" =>
    LET q == fs_call.args[1] IN
    /\ Resolving(q) = {} => fs_call.raised = "FileNotFoundError"
    /\ \A p \in Resolving(q) :
         Resolving(q) = {p} /\ <<p, TuidOf(p)>> \in files =>
           /\ fs_call.raised = "none"
           /\ fs_call.returns = "dataset"
           /\ fs_call.result = TuidOf(p)

\* --- C18.  get_datadir queried while the directory is unset raises
\* NotADirectoryError, and set_datadir(None) and set_datadir('') raise and
\* leave the stored value as it was.
C18_OnlyExplicitDatadir ==
  [][/\ fs_call'.op = "get_datadir" /\ datadir = None =>
          fs_call'.raised = "NotADirectoryError"
     /\ fs_call'.op = "set_datadir" /\ fs_call'.args[1] \in {None, EmptyStr} =>
          fs_call'.raised # "none" /\ datadir' = datadir]_vars

\* The names create_exp_folder gives to a day and to an experiment folder.
IsDayName(x) == Len(x) = 8 /\ \A k \in 1..8 : IsDigit(x[k])
IsExperimentName(x) ==
  /\ Len(x) >= 17
  /\ \A k \in 1..17 :
       IF k \in {7, 11} THEN x[k] = Dash
       ELSE IF k < 11 THEN IsDigit(x[k])
       ELSE IsHex(x[k])

\* The experiment folders of the data directory whose name has the string.
Experiments(contains) ==
  {p \in tree : /\ Len(p) = 3 /\ p[1] = datadir
                /\ IsDayName(p[2]) /\ IsExperimentName(p[3])
                /\ Contains(p[3], contains)}

\* --- C19.  get_latest_tuid(contains) returns the greatest TUID among the
\* experiment folders, of all days, whose name contains the string, and
\* raises FileNotFoundError when there is none (no day, or no match).
C19_LatestIsGreatest ==
  fs_call.op = "get_latest_tuid" =>
    LET E == {TuidOf(p) : p \in Experiments(fs_call.args[1])} IN
    IF E = {} THEN fs_call.raised = "FileNotFoundError"
    ELSE /\ fs_call.raised = "none"
         /\ fs_call.result \in E
         /\ \A t \in E : ~SeqLess(fs_call.result, t)

\* Folders named 'run' on two days, and the later day is returned although
\* its time of day is the earlier one.
C19_Witness ==
  /\ fs_call.op = "get_latest_tuid"
  /\ fs_call.args[1] = RunName
  /\ Cardinality({p[2] : p \in Experiments(RunName)}) = 2
  /\ fs_call.raised = "none"
  /\ Slice(fs_call.result, 6, 8) = <<51, 48>>
  /\ \E t \in {TuidOf(p) : p \in Experiments(RunName)} :
       SeqLess(Slice(fs_call.result, 9, 15), Slice(t, 9, 15))

\* A set of strings as an ascending list.
RECURSIVE Ascending(_)
Ascending(S) ==
  IF S = {} THEN <<>>
  ELSE LET m == CHOOSE m \in S : \A o \in S : ~SeqLess(o, m)
       IN <<m>> \o Ascending(S \ {m})

Reversed(l) == [k \in 1..Len(l) |-> l[Len(l) + 1 - k]]

\* What C20 asks of a call: the qualifying TUIDs, ordered and truncated.
Qualifying(contains, kw) ==
  LET Q == {t \in {TuidOf(p) : p \in Experiments(contains)} :
              /\ kw.t_start # None => ~SeqLess(DateTime(t), kw.t_start)
              /\ kw.t_stop # None => SeqLess(DateTime(t), kw.t_stop)}
      ordered == IF kw.reverse THEN Reversed(Ascending(Q)) ELSE Ascending(Q)
  IN IF kw.max_results = 0 THEN ordered
     ELSE SubSeq(ordered, 1, Min(kw.max_results, Len(ordered)))

\* --- C20.  get_tuids_containing returns the TUIDs of exactly the
\* experiments whose name contains the string and whose time is in
\* [t_start, t_stop), ascending (descending with reverse), truncated to
\* max_results, and raises FileNotFoundError when none qualifies.
C20_TuidsContaining ==
  fs_call.op = "get_tuids_containing" =>
    LET expected == Qualifying(fs_call.args[1], fs_call.kw) IN
    IF expected = <<>> THEN fs_call.raised = "FileNotFoundError"
    ELSE /\ fs_call.raised = "none"
         /\ fs_call.returns = "list"
         /\ fs_call.result = expected

\* ------------------------------------- settings loaded onto an instrument
\* (quantify/utilities/experiment_helpers.py)
\*
\* A Python value is its type and its content as a sequence of numbers: an
\* int n is <<n>>, a bool is <<0>> or <<1>>, a str is its character codes and
\* None is empty.
PyNone     == [t |-> "NoneType", v |-> <<>>]
PyInt(n)   == [t |-> "int", v |-> <<n>>]
PyBool(b)  == [t |-> "bool", v |-> IF b THEN <<1>> ELSE <<0>>]
PyStr(str) == [t |-> "str", v |-> str]

\* Python's truth value of an object: None, zero, False and the empty string
\* are false.
truth(val) ==
  CASE val.t = "NoneType" -> FALSE
    [] val.t = "int"      -> val.v[1] # 0
    [] val.t = "bool"     -> val.v[1] = 1
    [] val.t = "str"      -> Len(val.v) > 0

\* The parameter names that occur, the values a snapshot holds for them, and
\* the mark of a name the snapshot does not hold.
ParNames   == {"freq", "power"}
SnapValues == {PyNone, PyInt(0), PyInt(5), PyBool(FALSE), PyBool(TRUE),
               PyStr(<<>>), PyStr(<<97>>)}
NotInSnapshot == [t |-> "absent", v |-> <<>>]

\* snapshot["instruments"]: whether it has the instrument's name and, if so,
\* the "value" of each of its "parameters".
Snapshots ==
  [has_instrument : BOOLEAN, value : [ParNames -> SnapValues \cup {NotInSnapshot}]]

\* The instrument: which parameters it has, which of them have a set method,
\* and the value each holds before the call.
InitialValue == PyInt(7)
Instruments ==
  {[p \in ParNames |-> [exists |-> k[p] # "absent", settable |-> k[p] = "settable",
                        value |-> InitialValue]] :
     k \in [ParNames -> {"absent", "settable", "readonly"}]}

\* load_settings_onto_instrument(instrument, tuid, datadir) for the snapshot
\* that load_snapshot(tuid, datadir) returns.
load_settings_onto_instrument(snapshot, instrument) ==
  IF ~snapshot.has_instrument
  THEN [done |-> TRUE, raised |-> "ValueError", snapshot |-> snapshot,
        instrument |-> instrument, sets |-> {}, warned |-> {}]
  ELSE LET items == {p \in ParNames : snapshot.value[p] # NotInSnapshot}
           isset(p) == /\ p \in items
                       /\ instrument[p].exists
                       /\ instrument[p].settable
                       /\ truth(snapshot.value[p])
       IN [done |-> TRUE, raised |-> "none", snapshot |-> snapshot,
           instrument |-> [p \in ParNames |->
                             IF isset(p)
                             THEN [instrument[p] EXCEPT !.value = snapshot.value[p]]
                             ELSE instrument[p]],
           sets |-> {<<p, snapshot.value[p]>> : p \in {q \in ParNames : isset(q)}},
           warned |-> {p \in items : ~instrument[p].exists}]

InitSettings ==
  /\ ControlInit /\ TuidIdle /\ DsIdle /\ FsIdle
  /\ asm_call = NoAsmCall
  /\ ls_call \in {[done |-> FALSE, raised |-> "none", snapshot |-> sn,
                   instrument |-> ins, sets |-> {}, warned |-> {}] :
                    sn \in Snapshots, ins \in Instruments}

call_load_settings_onto_instrument ==
  /\ ~ls_call.done
  /\ ls_call' = load_settings_onto_instrument(ls_call.snapshot, ls_call.instrument)
  /\ UNCHANGED <<control, tuidgen, dsfuns, fsys, asm_call>>

NextSettings == call_load_settings_onto_instrument

SpecSettings == InitSettings /\ [][NextSettings]_vars

\* The parameters C29 says are set: in the snapshot, on the instrument,
\* settable, and with a snapshot value other than None.
Restorable(snapshot, instrument) ==
  {p \in ParNames : /\ snapshot.value[p] # NotInSnapshot
                    /\ instrument[p].exists
                    /\ instrument[p].settable
                    /\ snapshot.value[p] # PyNone}

\* --- C29.  load_settings_onto_instrument sets every parameter of the
\* snapshot that exists on the instrument, is settable and has a value other
\* than None (0, False and '' included) to its snapshot value, and sets no
\* other parameter.
C29_SetsAllButNone ==
  [][(~ls_call.done /\ ls_call'.done /\ ls_call'.raised = "none") =>
       /\ ls_call'.sets = {<<p, ls_call.snapshot.value[p]>> :
                             p \in Restorable(ls_call.snapshot, ls_call.instrument)}
       /\ \A p \in ParNames :
            ls_call'.instrument[p].value =
              IF p \in Restorable(ls_call.snapshot, ls_call.instrument)
              THEN ls_call.snapshot.value[p]
              ELSE ls_call.instrument[p].value]_vars

\* ------------------------------------------ the sequencer program (q1asm)
\* (quantify/sequencer/backends/pulsar_backend.py)
\*
\* A waveform is known by its length only (one sample per nanosecond), a row
\* of the program by its four cells before columnar lays them out as text.
MaxDuration == 2      \* longest waveform, in samples
MaxOps      == 3      \* longest list of pulse timings
MaxStart    == 5      \* latest absolute start time

PulseIds == {"X", "Y"}

\* pulse_info in insertion order: the id of each pulse and len(data).
PulseInfos ==
  {<<[id |-> a, len |-> n]>> : a \in PulseIds, n \in 1..MaxDuration} \cup
  {<<[id |-> ab[1], len |-> n], [id |-> ab[2], len |-> m]>> :
     ab \in {q \in PulseIds \X PulseIds : q[1] # q[2]},
     n \in 1..MaxDuration, m \in 1..MaxDuration}

\* build_waveform_dict(pulse_info): two waveforms per pulse; pulse number nr
\* (idx of the code, from 0) gets the indices nr + nr and nr + nr + 1.
build_waveform_dict(pulse_info) ==
  [k \in 1..(2 * Len(pulse_info)) |->
     LET nr == (k - 1) \div 2
         idx_offset == nr
     IN IF k % 2 = 1
        THEN [key |-> <<pulse_info[nr + 1].id, "I">>, len |-> pulse_info[nr + 1].len,
              index |-> nr + idx_offset]
        ELSE [key |-> <<pulse_info[nr + 1].id, "Q">>, len |-> pulse_info[nr + 1].len,
              index |-> nr + (idx_offset + 1)]]

\* pulse_dict[key]
Waveform(pulse_dict, key) ==
  pulse_dict[CHOOSE k \in 1..Len(pulse_dict) : pulse_dict[k].key = key]

Row(label, suffix, op, args, comment) ==
  [label |-> [text |-> label, suffix |-> suffix], op |-> op, args |-> args,
   comment |-> comment]

\* The loop of build_q1asm over the operations still to come.
RECURSIVE q1asm_rows(_, _, _, _, _)
q1asm_rows(ops, pulse_dict, clock, labels, rows) ==
  IF ops = <<>> THEN rows
  ELSE LET timing   == Head(ops).timing
           pulse_id == Head(ops).pulse_id
           I        == Waveform(pulse_dict, <<pulse_id, "I">>).index
           Q        == Waveform(pulse_dict, <<pulse_id, "Q">>).index
           waited   == IF clock < timing
                       THEN Append(rows, Row("", <<>>, "wait", <<timing - clock>>, <<"#Wait">>))
                       ELSE rows
           spaced   == Append(waited, Row("", <<>>, "", <<>>, <<>>))
           duration == Waveform(pulse_dict, <<pulse_id, "I">>).len
           played   == Append(spaced, Row(pulse_id, <<labels[pulse_id]>>, "play",
                                          <<I, Q, duration>>, <<"#Play", pulse_id>>))
       IN q1asm_rows(Tail(ops), pulse_dict, clock + duration,
                     [labels EXCEPT ![pulse_id] = @ + 1], played)

\* build_q1asm(ordered_operations, pulse_dict)
build_q1asm(ordered_operations, pulse_dict) ==
  q1asm_rows(ordered_operations, pulse_dict, 0, [a \in PulseIds |-> 0],
             <<Row("start", <<>>, "move", <<Len(pulse_dict)>>,
                   <<"#Waveform count register">>)>>)

\* The duration of a pulse of pulse_info.
DurationOf(pulse_info, a) ==
  pulse_info[CHOOSE k \in 1..Len(pulse_info) : pulse_info[k].id = a].len

\* Time-ordered lists of non-overlapping pulses of pulse_info.
PulseTimings(pulse_info) ==
  LET ids   == {pulse_info[k].id : k \in 1..Len(pulse_info)}
      entry == [timing : 0..MaxStart, pulse_id : ids]
  IN {ops \in UNION {[1..n -> entry] : n \in 0..MaxOps} :
        \A i \in 1..(Len(ops) - 1) :
          ops[i].timing + DurationOf(pulse_info, ops[i].pulse_id) <= ops[i + 1].timing}

InitAsm ==
  /\ ControlInit /\ TuidIdle /\ DsIdle /\ FsIdle
  /\ ls_call = NoSettingsCall
  /\ asm_call \in {[done |-> FALSE, pulse_info |-> info, pulse_timings |-> ops,
                    waveforms |-> <<>>, program |-> <<>>] :
                     info \in PulseInfos, ops \in UNION {PulseTimings(i) : i \in PulseInfos}}
  /\ asm_call.pulse_timings \in PulseTimings(asm_call.pulse_info)

\* generate_sequencer_cfg(pulse_info, pulse_timings)
call_generate_sequencer_cfg ==
  /\ ~asm_call.done
  /\ asm_call' =
       LET cfg == build_waveform_dict(asm_call.pulse_info)
       IN [asm_call EXCEPT !.done = TRUE, !.waveforms = cfg,
                           !.program = build_q1asm(asm_call.pulse_timings, cfg)]
  /\ UNCHANGED <<control, tuidgen, dsfuns, fsys, ls_call>>

NextAsm == call_generate_sequencer_cfg

SpecAsm == InitAsm /\ [][NextAsm]_vars

\* The time a row of the program takes when it is executed.
RowTime(row) ==
  CASE row.op = "wait" -> row.args[1]
    [] row.op = "play" -> row.args[3]
    [] OTHER           -> 0

\* The time that has passed when row r of the program begins.
RECURSIVE Elapsed(_, _)
Elapsed(rows, r) ==
  IF r <= 1 THEN 0 ELSE Elapsed(rows, r - 1) + RowTime(rows[r - 1])

\* The row of the i-th play instruction.
NthPlay(rows, i) ==
  CHOOSE r \in 1..Len(rows) :
    /\ rows[r].op = "play"
    /\ Cardinality({q \in 1..(r - 1) : rows[q].op = "play"}) = i - 1

\* --- C30.  In the program built from a time-ordered list of non-overlapping
\* entries every play instruction begins at its pulse's absolute start time:
\* the waits and play durations emitted before it add up to that time.
C30_PlaysAtStartTime ==
  asm_call.done =>
    \A i \in 1..Len(asm_call.pulse_timings) :
      Elapsed(asm_call.program, NthPlay(asm_call.program, i))
        = asm_call.pulse_timings[i].timing

====
